---- MODULE Spec2Model ----
(***************************************************************************)
(* GCM dispatch-and-reconcile protocol of push_notifications/gcm.py:       *)
(* the batcher (_chunks), the two public entry points (gcm_send_message,   *)
(* gcm_send_bulk_message), the request/transport step (_gcm_send_json,     *)
(* _gcm_send) and the reconciliation of the gateway's response with the    *)
(* device registry (_cm_handle_response, _cm_handle_canonical_id).         *)
(*                                                                         *)
(* Every access of GCMDevice.objects is one database statement and is one  *)
(* step of the model; the code opens no transaction around them.           *)
(***************************************************************************)
EXTENDS Integers, Sequences, FiniteSets

VARIABLES SETTINGS, registry, call, gen, build

vars == <<SETTINGS, registry, call, gen, build>>

(* ------------------------------ bounds --------------------------------- *)

\* registration ids are 1..NumTokens; 0 stands for an absent (None) id
NumTokens == 3
\* rows of the GCMDevice table
NumDevices == 2
\* longest registration_ids list a caller passes
MaxLen == 2
\* largest configured GCM_MAX_RECIPIENTS
MaxRecipients == 2
\* longest "results" array of a gateway response
MaxResults == 2
\* largest chunk size and longest list handed to the batcher on its own
MaxChunk == 3
MaxBatch == 4

Token == 1..NumTokens
Dev == 1..NumDevices
Procs == {1, 2}

(* ------------------------------- data ---------------------------------- *)

\* error codes of a result entry; "None" is an entry without "error"
Errors == {"None", "NotRegistered", "InvalidRegistration", "Unavailable"}

ResultEntry == [error : Errors, registration_id : 0..NumTokens]

ResultLists == UNION {[1..m -> ResultEntry] : m \in 0..MaxResults}

\* a parsed response body; has_results = FALSE is a body without "results".
\* The counts are 0 (absent or zero) or 1 (non-zero); the code reads them
\* only through "or", so the bodies with both non-zero are left out.
Responses ==
    {r \in [failure : 0..1, canonical_ids : 0..1,
            has_results : BOOLEAN, results : ResultLists] :
        /\ ~r.has_results => r.results = <<>>
        /\ ~(r.failure # 0 /\ r.canonical_ids # 0)}

NoResponse == [failure |-> 0, canonical_ids |-> 0, has_results |-> FALSE, results |-> <<>>]

TokenLists == UNION {[1..m -> Token] : m \in 0..MaxLen}

DeviceRows == [registration_id : Token, active : BOOLEAN]

\* what _gcm_send_json hands back: None, or the response
NoneResult == [type |-> "None", value |-> NoResponse]
ResponseResult(response) == [type |-> "response", value |-> response]

Min(a, b) == IF a < b THEN a ELSE b

InSeq(x, s) == \E j \in 1..Len(s) : s[j] = x

(* ------------------------------ batcher -------------------------------- *)

\* l[i:j] of Python, for 0 <= i
Slice(l, i, j) == SubSeq(l, i + 1, Min(j, Len(l)))

\* faulty variant: a chunk is yielded only while a full one is left
_chunks_more_full_only(l, n, i) == i + n <= Len(l)

\* range(0, len(l), n) has not run out at offset i
_chunks_more(l, n, i) == i < Len(l)

\* the chunk the generator yields at offset i
_chunks_yield(l, n, i) == Slice(l, i, i + n)

(* --------------------------- registry access --------------------------- *)

\* GCMDevice.objects.filter(registration_id__in=ids).update(active=0)
DeactivateIds(reg, ids) ==
    [d \in Dev |-> IF InSeq(reg[d].registration_id, ids)
                   THEN [reg[d] EXCEPT !.active = FALSE]
                   ELSE reg[d]]

\* devices.filter(registration_id=canonical_id, active=True).exists()
ExistsActive(reg, canonical_id) ==
    \E d \in Dev : reg[d].registration_id = canonical_id /\ reg[d].active

\* devices.filter(registration_id=current_id).update(active=False)
DeactivateCurrent(reg, current_id) ==
    [d \in Dev |-> IF reg[d].registration_id = current_id
                   THEN [reg[d] EXCEPT !.active = FALSE]
                   ELSE reg[d]]

\* faulty variant: the renamed row is made active
RenameCurrentReactivates(reg, canonical_id, current_id) ==
    [d \in Dev |-> IF reg[d].registration_id = current_id
                   THEN [registration_id |-> canonical_id, active |-> TRUE]
                   ELSE reg[d]]

\* devices.filter(registration_id=current_id).update(registration_id=canonical_id)
RenameCurrent(reg, canonical_id, current_id) ==
    [d \in Dev |-> IF reg[d].registration_id = current_id
                   THEN [reg[d] EXCEPT !.registration_id = canonical_id]
                   ELSE reg[d]]

\* faulty variant: the row is renamed whatever exists() answered
CanonicalUpdateAlwaysRename(reg, exists, canonical_id, current_id) ==
    RenameCurrent(reg, canonical_id, current_id)

\* faulty variant: the two ids are swapped in the duplicate branch
CanonicalUpdateSwapped(reg, exists, canonical_id, current_id) ==
    IF exists
    THEN DeactivateCurrent(reg, canonical_id)
    ELSE RenameCurrent(reg, canonical_id, current_id)

\* the branch of _cm_handle_canonical_id taken on the answer of exists()
CanonicalUpdate(reg, exists, canonical_id, current_id) ==
    IF exists
    THEN DeactivateCurrent(reg, current_id)
    ELSE RenameCurrent(reg, canonical_id, current_id)

\* _cm_handle_canonical_id run without interruption
_cm_handle_canonical_id(reg, canonical_id, current_id) ==
    CanonicalUpdate(reg, ExistsActive(reg, canonical_id), canonical_id, current_id)

(* ------------------------- scan of the results ------------------------- *)

\* faulty variant: InvalidRegistration is not taken as terminal
IsTerminalNotRegisteredOnly(error) == error = "NotRegistered"

\* error in ("NotRegistered", "InvalidRegistration")
IsTerminal(error) == error \in {"NotRegistered", "InvalidRegistration"}

\* faulty variant: the results are gone through whatever the counts say
NeedsHandlingAlways(response) == TRUE

\* response.get("failure") or response.get("canonical_ids")
NeedsHandling(response) == response.failure # 0 \/ response.canonical_ids # 0

ScanStart == [exc |-> "None", ids_to_remove |-> <<>>, old_new_ids |-> <<>>,
              throw_error |-> FALSE]

\* faulty variant: a new pair is put in front of the earlier ones
ScanEntryPrepend(registration_ids, result, index, acc) ==
    LET error == result.error
        new_id == result.registration_id
        terminal == error # "None" /\ IsTerminal(error)
    IN  IF (terminal \/ new_id # 0) /\ index > Len(registration_ids)
        THEN [acc EXCEPT !.exc = "IndexError"]
        ELSE [acc EXCEPT
                !.ids_to_remove = IF terminal
                                  THEN Append(@, registration_ids[index]) ELSE @,
                !.throw_error = @ \/ (error # "None" /\ ~IsTerminal(error)),
                !.old_new_ids = IF new_id # 0
                                THEN <<<<registration_ids[index], new_id>>>> \o @
                                ELSE @]

\* faulty variant: registration_id is read only from an entry without error
ScanEntryNoPairOnError(registration_ids, result, index, acc) ==
    LET error == result.error
        new_id == IF error = "None" THEN result.registration_id ELSE 0
        terminal == error # "None" /\ IsTerminal(error)
    IN  IF (terminal \/ new_id # 0) /\ index > Len(registration_ids)
        THEN [acc EXCEPT !.exc = "IndexError"]
        ELSE [acc EXCEPT
                !.ids_to_remove = IF terminal
                                  THEN Append(@, registration_ids[index]) ELSE @,
                !.throw_error = @ \/ (error # "None" /\ ~IsTerminal(error)),
                !.old_new_ids = IF new_id # 0
                                THEN Append(@, <<registration_ids[index], new_id>>)
                                ELSE @]

\* one iteration of the loop over enumerate(response["results"])
ScanEntry(registration_ids, result, index, acc) ==
    LET error == result.error
        new_id == result.registration_id
        terminal == error # "None" /\ IsTerminal(error)
    IN  IF (terminal \/ new_id # 0) /\ index > Len(registration_ids)
        THEN [acc EXCEPT !.exc = "IndexError"]
        ELSE [acc EXCEPT
                !.ids_to_remove = IF terminal
                                  THEN Append(@, registration_ids[index]) ELSE @,
                !.throw_error = @ \/ (error # "None" /\ ~IsTerminal(error)),
                !.old_new_ids = IF new_id # 0
                                THEN Append(@, <<registration_ids[index], new_id>>)
                                ELSE @]

\* faulty variant: the loop is left at the first non-terminal error
RECURSIVE ScanFromStopAtError(_, _, _, _)
ScanFromStopAtError(registration_ids, results, index, acc) ==
    IF index > Len(results) \/ acc.exc # "None" \/ acc.throw_error
    THEN acc
    ELSE ScanFromStopAtError(registration_ids, results, index + 1,
                             ScanEntry(registration_ids, results[index], index, acc))

\* the loop over enumerate(response["results"]) from index on; an exception
\* ends it
RECURSIVE ScanFrom(_, _, _, _)
ScanFrom(registration_ids, results, index, acc) ==
    IF index > Len(results) \/ acc.exc # "None"
    THEN acc
    ELSE ScanFrom(registration_ids, results, index + 1,
                  ScanEntry(registration_ids, results[index], index, acc))

\* the loop of _cm_handle_response; a body without "results" is a KeyError
Scan(registration_ids, response) ==
    IF ~response.has_results
    THEN [ScanStart EXCEPT !.exc = "KeyError"]
    ELSE ScanFrom(registration_ids, response.results, 1, ScanStart)

RECURSIVE ApplyCanonicalIds(_, _, _)
ApplyCanonicalIds(reg, old_new_ids, k) ==
    IF k > Len(old_new_ids)
    THEN reg
    ELSE ApplyCanonicalIds(
            _cm_handle_canonical_id(reg, old_new_ids[k][2], old_new_ids[k][1]),
            old_new_ids, k + 1)

\* _cm_handle_response run without interruption: the registry it leaves and
\* the exception it raises ("None": it returns the response)
_cm_handle_response(reg, registration_ids, response) ==
    IF ~NeedsHandling(response)
    THEN [registry |-> reg, exc |-> "None"]
    ELSE LET s == Scan(registration_ids, response)
         IN  IF s.exc # "None"
             THEN [registry |-> reg, exc |-> s.exc]
             ELSE [registry |->
                     ApplyCanonicalIds(
                        IF s.ids_to_remove # <<>>
                        THEN DeactivateIds(reg, s.ids_to_remove) ELSE reg,
                        s.old_new_ids, 1),
                   exc |-> IF s.throw_error THEN "GCMError" ELSE "None"]

(* ------------------------------- state --------------------------------- *)

\* SETTINGS.get("GCM_API_KEY") is set or not; SETTINGS.get("GCM_MAX_RECIPIENTS")
Settings == [GCM_API_KEY : BOOLEAN, GCM_MAX_RECIPIENTS : 1..MaxRecipients]

\* at most one active row per registration id
UniqueActive(reg) ==
    \A d1, d2 \in Dev :
        (reg[d1].active /\ reg[d2].active
            /\ reg[d1].registration_id = reg[d2].registration_id) => d1 = d2

Registries == {reg \in [Dev -> DeviceRows] : UniqueActive(reg)}

NoRegistry == [d \in Dev |-> [registration_id |-> 1, active |-> FALSE]]

\* what the entry point hands to its caller
OutOf(result) == [type |-> result.type, value |-> result.value, list |-> <<>>]
OutList(ret) == [type |-> "list", value |-> NoResponse, list |-> ret]

\* a caller that is not inside gcm_send_message / gcm_send_bulk_message.
\* sent, raised, reg_call (the registry when the entry point was entered) and
\* reg0 (the registry when _gcm_send_json was entered) record what happened;
\* handled says that _cm_handle_response was entered for the current chunk
IdleCall ==
    [pc |-> "idle", entry |-> "none", registration_ids |-> <<>>, multi |-> FALSE,
     i |-> 0, ret |-> <<>>, out |-> OutOf(NoneResult), exc |-> "None",
     raised |-> <<>>, sent |-> <<>>, reg_call |-> NoRegistry,
     chunk |-> <<>>, handled |-> FALSE, response |-> NoResponse, reg0 |-> NoRegistry,
     ids_to_remove |-> <<>>, old_new_ids |-> <<>>, throw_error |-> FALSE,
     k |-> 0, exists |-> FALSE]

\* the batcher run on its own: its arguments, its offset, the chunks yielded
NoGen == [l |-> <<>>, n |-> 1, i |-> 0, out |-> <<>>]

\* the envelope builder run on its own: its arguments and what it built
\* (order: the order the dict gave its keys in at the last build; reordered:
\* two builds in a row got different orders; built: the serialised envelopes)
NoBuild == [registration_ids |-> <<>>, data |-> "None", collapse_key |-> "None",
            delay_while_idle |-> FALSE, time_to_live |-> 0,
            order |-> <<>>, reordered |-> FALSE, built |-> <<>>]

Init ==
    /\ SETTINGS \in Settings
    /\ registry \in Registries
    /\ call = [p \in Procs |-> IdleCall]
    /\ gen = NoGen
    /\ build = NoBuild

(* ------------------------- the entry points ---------------------------- *)

Entries == {"gcm_send_message", "gcm_send_bulk_message"}

\* the value of _gcm_send_json reaches the entry point that called it; of the
\* list ret only the kind of each element is kept ("None" or "response"), the
\* last response itself stays in c.response
Return(c, result) ==
    IF c.entry = "gcm_send_message"
    THEN [c EXCEPT !.pc = "done", !.out = OutOf(NoneResult)]
    ELSE IF c.multi
         THEN [c EXCEPT !.pc = "facade", !.ret = Append(@, result.type)]
         ELSE [c EXCEPT !.pc = "done", !.out = OutOf(result)]

\* faulty variant: the chunk loop swallows the exception and goes on
RaiseSwallowed(c, exc) ==
    IF c.multi
    THEN [c EXCEPT !.pc = "facade", !.ret = Append(@, "None"),
                   !.raised = Append(@, exc)]
    ELSE [c EXCEPT !.pc = "done", !.exc = exc, !.raised = Append(@, exc)]

\* an exception of _gcm_send_json leaves the entry point that called it
Raise(c, exc) ==
    [c EXCEPT !.pc = "done", !.exc = exc, !.raised = Append(@, exc)]

\* faulty variant: the list is split one id too late
IsMultiOffByOne(entry, registration_ids) ==
    entry = "gcm_send_bulk_message"
        /\ Len(registration_ids) > SETTINGS.GCM_MAX_RECIPIENTS + 1

\* more than GCM_MAX_RECIPIENTS ids: gcm_send_bulk_message sends chunk by chunk
IsMulti(entry, registration_ids) ==
    entry = "gcm_send_bulk_message"
        /\ Len(registration_ids) > SETTINGS.GCM_MAX_RECIPIENTS

\* a caller enters gcm_send_message(registration_id) or
\* gcm_send_bulk_message(registration_ids)
Call(p, lists) ==
    /\ call[p].pc = "idle"
    /\ \E entry \in Entries, ids \in lists :
        /\ entry = "gcm_send_message" => Len(ids) = 1
        /\ call' = [call EXCEPT ![p] =
                [IdleCall EXCEPT
                    !.entry = entry,
                    !.registration_ids = ids,
                    !.multi = IsMulti(entry, ids),
                    !.reg_call = registry,
                    !.reg0 = IF IsMulti(entry, ids) THEN NoRegistry ELSE registry,
                    !.pc = IF IsMulti(entry, ids) THEN "facade" ELSE "send_json",
                    !.chunk = IF IsMulti(entry, ids) THEN <<>> ELSE ids]]
    /\ UNCHANGED <<SETTINGS, registry, gen, build>>

\* for chunk in _chunks(registration_ids, max_recipients): ...; return ret
FacadeNext(p) ==
    LET c == call[p]
        n == SETTINGS.GCM_MAX_RECIPIENTS
    IN  /\ c.pc = "facade"
        /\ call' = [call EXCEPT ![p] =
                IF _chunks_more(c.registration_ids, n, c.i)
                THEN [c EXCEPT
                        !.pc = "send_json",
                        !.i = @ + n,
                        !.chunk = _chunks_yield(c.registration_ids, n, c.i),
                        !.handled = FALSE, !.response = NoResponse,
                        !.reg0 = registry, !.ids_to_remove = <<>>,
                        !.old_new_ids = <<>>, !.throw_error = FALSE,
                        !.k = 0, !.exists = FALSE]
                ELSE [c EXCEPT !.pc = "done", !.out = OutList(c.ret)]]
        /\ UNCHANGED <<SETTINGS, registry, gen, build>>

\* the envelope _gcm_send_json serialises
Envelope(registration_ids) == [registration_ids |-> registration_ids]

\* faulty variant: GCMError is raised as soon as the loop has ended
AfterScanRaiseFirst(c, s) ==
    IF s.throw_error
    THEN Raise([c EXCEPT !.ids_to_remove = s.ids_to_remove,
                         !.old_new_ids = s.old_new_ids,
                         !.throw_error = s.throw_error], "GCMError")
    ELSE [c EXCEPT !.pc = "deactivate", !.ids_to_remove = s.ids_to_remove,
                   !.old_new_ids = s.old_new_ids, !.throw_error = s.throw_error]

\* where _cm_handle_response goes once the loop over the results has ended
AfterScan(c, s) ==
    [c EXCEPT !.pc = "deactivate", !.ids_to_remove = s.ids_to_remove,
              !.old_new_ids = s.old_new_ids, !.throw_error = s.throw_error]

\* faulty variant: an empty list is sent like any other
NoRegistrationIdsNever(registration_ids) == FALSE

\* if not registration_ids: return
NoRegistrationIds(registration_ids) == registration_ids = <<>>

\* faulty variant: the key is looked at once the request has gone out
NoKeyAfterPost(c, posted) == Raise(posted, "ImproperlyConfigured")

\* _gcm_send without GCM_API_KEY: ImproperlyConfigured is raised before the
\* request is built; posted is the call once urlopen has run
NoKey(c, posted) == Raise(c, "ImproperlyConfigured")

\* _gcm_send_json up to the first statement of _cm_handle_response that
\* touches the registry: the empty-list return, the key check and the POST of
\* _gcm_send, json.loads, the guard and the loop over the results
GcmSendJson(p, responses) ==
    LET c == call[p]
        posted == [c EXCEPT !.sent = Append(@, Envelope(c.chunk))]
    IN  /\ c.pc = "send_json"
        /\ IF NoRegistrationIds(c.chunk)
           THEN call' = [call EXCEPT ![p] = Return(c, NoneResult)]
           ELSE IF ~SETTINGS.GCM_API_KEY
           THEN call' = [call EXCEPT ![p] = NoKey(c, posted)]
           ELSE \/ call' = [call EXCEPT ![p] = Raise(posted, "HTTPError")]
                \/ \E r \in responses :
                    LET got == [posted EXCEPT !.response = r, !.handled = TRUE]
                        s == Scan(c.chunk, r)
                    IN  call' = [call EXCEPT ![p] =
                            IF ~NeedsHandling(r)
                            THEN Return(got, ResponseResult(r))
                            ELSE IF s.exc # "None"
                                 THEN Raise(got, s.exc)
                                 ELSE AfterScan(got, s)]
        /\ UNCHANGED <<SETTINGS, registry, gen, build>>

\* if ids_to_remove: GCMDevice.objects.filter(...).update(active=0)
HandleDeactivate(p) ==
    LET c == call[p]
    IN  /\ c.pc = "deactivate"
        /\ registry' = IF c.ids_to_remove # <<>>
                       THEN DeactivateIds(registry, c.ids_to_remove)
                       ELSE registry
        /\ call' = [call EXCEPT ![p] =
                IF c.old_new_ids # <<>>
                THEN [c EXCEPT !.pc = "canonical", !.k = 1]
                ELSE [c EXCEPT !.pc = "finish"]]
        /\ UNCHANGED <<SETTINGS, gen, build>>

\* the exists() query of _cm_handle_canonical_id for the k-th pair
CanonicalExists(p) ==
    LET c == call[p]
    IN  /\ c.pc = "canonical"
        /\ call' = [call EXCEPT ![p] =
                [c EXCEPT !.pc = "canonical_update",
                          !.exists = ExistsActive(registry, c.old_new_ids[c.k][2])]]
        /\ UNCHANGED <<SETTINGS, registry, gen, build>>

\* the update() of _cm_handle_canonical_id for the k-th pair
CanonicalApply(p) ==
    LET c == call[p]
        old_id == c.old_new_ids[c.k][1]
        new_id == c.old_new_ids[c.k][2]
    IN  /\ c.pc = "canonical_update"
        /\ registry' = CanonicalUpdate(registry, c.exists, new_id, old_id)
        /\ call' = [call EXCEPT ![p] =
                [c EXCEPT !.pc = IF c.k < Len(c.old_new_ids)
                                 THEN "canonical" ELSE "finish",
                          !.k = @ + 1,
                          !.exists = FALSE]]
        /\ UNCHANGED <<SETTINGS, gen, build>>

\* if throw_error: raise GCMError(response); return response
HandleFinish(p) ==
    LET c == call[p]
    IN  /\ c.pc = "finish"
        /\ call' = [call EXCEPT ![p] =
                IF c.throw_error
                THEN Raise(c, "GCMError")
                ELSE Return(c, ResponseResult(c.response))]
        /\ UNCHANGED <<SETTINGS, registry, gen, build>>

\* the entry point has returned or raised: its caller goes on
CallerResumes(p) ==
    /\ call[p].pc = "done"
    /\ call' = [call EXCEPT ![p] = IdleCall]
    /\ UNCHANGED <<SETTINGS, registry, gen, build>>

\* one step of caller p
Step(p, lists, responses) ==
    \/ Call(p, lists)
    \/ CallerResumes(p)
    \/ FacadeNext(p)
    \/ GcmSendJson(p, responses)
    \/ HandleDeactivate(p)
    \/ CanonicalExists(p)
    \/ CanonicalApply(p)
    \/ HandleFinish(p)

\* one caller: sends follow one another
Next == Step(1, TokenLists, Responses)

Spec == Init /\ [][Next]_vars

(* ------------------------ the batcher on its own ----------------------- *)

BatchLists == UNION {[1..m -> Token] : m \in 0..MaxBatch}

InitChunks ==
    /\ SETTINGS = [GCM_API_KEY |-> TRUE, GCM_MAX_RECIPIENTS |-> 1]
    /\ registry = NoRegistry
    /\ call = [p \in Procs |-> IdleCall]
    /\ gen \in [l : BatchLists, n : 1..MaxChunk, i : {0}, out : {<<>>}]
    /\ build = NoBuild

\* the generator _chunks(l, n) is resumed: it yields its next chunk
ChunksNext ==
    /\ _chunks_more(gen.l, gen.n, gen.i)
    /\ gen' = [gen EXCEPT !.out = Append(@, _chunks_yield(gen.l, gen.n, gen.i)),
                          !.i = @ + gen.n]
    /\ UNCHANGED <<SETTINGS, registry, call, build>>

SpecChunks == InitChunks /\ [][ChunksNext]_vars

(* --------------------------- concurrent callers ------------------------ *)

\* the sends two concurrent callers make: the id 1, the id 2, or both
ConcLists == {l \in TokenLists : l \in {<<1>>, <<2>>, <<1, 2>>}}

\* the response they get: one result, which carries the last id as canonical id
ConcResponses ==
    {r \in Responses :
        /\ r.failure = 0 /\ r.canonical_ids = 1 /\ r.has_results
        /\ Len(r.results) = 1
        /\ r.results[1].error = "None"
        /\ r.results[1].registration_id = NumTokens}

InitConc ==
    /\ SETTINGS = [GCM_API_KEY |-> TRUE, GCM_MAX_RECIPIENTS |-> 1]
    /\ registry \in Registries
    /\ call = [p \in Procs |-> IdleCall]
    /\ gen = NoGen
    /\ build = NoBuild

\* two callers (two worker processes on one database): their database
\* statements interleave freely
NextConc == \E p \in Procs : Step(p, ConcLists, ConcResponses)

SpecConc == InitConc /\ [][NextConc]_vars

(* -------------------------- the request envelope ----------------------- *)

\* largest time_to_live, and how often one envelope is built
MaxTtl == 1
MaxBuilds == 2

\* data: None, the empty dict, a dict with an entry
Datas == {"None", "{}", "{k: v}"}

\* collapse_key: None, the empty string, a key
CollapseKeys == {"None", "", "key"}

\* the value of an envelope key: a string, a number, a boolean or the id list
StrValue(s) == [kind |-> "str", str |-> s, num |-> 0, ids |-> <<>>]
NumValue(n) == [kind |-> "num", str |-> "", num |-> n, ids |-> <<>>]
BoolValue(b) == [kind |-> "bool", str |-> "", num |-> IF b THEN 1 ELSE 0, ids |-> <<>>]
IdsValue(l) == [kind |-> "list", str |-> "", num |-> 0, ids |-> l]

\* faulty variant: an empty dict is left out like None
HasDataTruthy(data) == data \notin {"None", "{}"}

\* if data is not None
HasData(data) == data # "None"

\* if collapse_key
HasCollapseKey(collapse_key) == collapse_key \notin {"None", ""}

\* if time_to_live
HasTimeToLive(time_to_live) == time_to_live # 0

\* the keys of the dict values once the four ifs have run
ValuesKeys(b) ==
    {"registration_ids"}
        \cup (IF HasData(b.data) THEN {"data"} ELSE {})
        \cup (IF HasCollapseKey(b.collapse_key) THEN {"collapse_key"} ELSE {})
        \cup (IF b.delay_while_idle THEN {"delay_while_idle"} ELSE {})
        \cup (IF HasTimeToLive(b.time_to_live) THEN {"time_to_live"} ELSE {})

\* the dict values
Values(b) ==
    [key \in ValuesKeys(b) |->
        CASE key = "registration_ids" -> IdsValue(b.registration_ids)
          [] key = "data" -> StrValue(b.data)
          [] key = "collapse_key" -> StrValue(b.collapse_key)
          [] key = "delay_while_idle" -> BoolValue(b.delay_while_idle)
          [] key = "time_to_live" -> NumValue(b.time_to_live)]

\* the orders a dict may give its keys in
Orders(keys) ==
    {f \in [1..Cardinality(keys) -> keys] :
        \A a, b \in 1..Cardinality(keys) : f[a] = f[b] => a = b}

\* the envelope keys as string comparison orders them
KeyOrder ==
    <<"collapse_key", "data", "delay_while_idle", "registration_ids", "time_to_live">>

Rank(key) == CHOOSE j \in 1..Len(KeyOrder) : KeyOrder[j] = key

\* sort_keys=True: the keys of order, sorted (the j-th is the one that has
\* j - 1 of the others before it)
SortKeys(order) ==
    LET keys == {order[j] : j \in 1..Len(order)}
    IN  [j \in 1..Len(order) |->
            CHOOSE key \in keys :
                Cardinality({o \in keys : Rank(o) < Rank(key)}) = j - 1]

\* json.dumps(values, separators=(",", ":"), sort_keys=True) where the dict
\* gives its keys in the given order: the members as they are written
Dumps(values, order) ==
    LET sorted == SortKeys(order)
    IN  [j \in 1..Len(sorted) |-> <<sorted[j], values[sorted[j]]>>]

\* _gcm_send_json is called for a non-empty list (an empty one returns before
\* values is built)
InitEnvelope ==
    /\ SETTINGS = [GCM_API_KEY |-> TRUE, GCM_MAX_RECIPIENTS |-> MaxRecipients]
    /\ registry = NoRegistry
    /\ call = [p \in Procs |-> IdleCall]
    /\ gen = NoGen
    /\ build \in [registration_ids : TokenLists \ {<<>>}, data : Datas,
                  collapse_key : CollapseKeys, delay_while_idle : BOOLEAN,
                  time_to_live : 0..MaxTtl,
                  order : {<<>>}, reordered : {FALSE}, built : {<<>>}]

\* values is built and serialised once more; the order the dict gives its keys
\* in is not fixed by the language
EnvelopeNext ==
    /\ Len(build.built) < MaxBuilds
    /\ \E order \in Orders(ValuesKeys(build)) :
        build' = [build EXCEPT
                    !.order = order,
                    !.reordered = @ \/ (build.built # <<>> /\ order # build.order),
                    !.built = Append(@, Dumps(Values(build), order))]
    /\ UNCHANGED <<SETTINGS, registry, call, gen>>

SpecEnvelope == InitEnvelope /\ [][EnvelopeNext]_vars

(* ======================================================================= *)
(*                               properties                                *)
(* ======================================================================= *)

\* _gcm_send_json has returned or raised for the current chunk, after its
\* response had reached _cm_handle_response
ChunkEnded(c) == c.handled /\ c.pc \in {"facade", "done"}

\* the registry the reconciliation of the current chunk leaves when nothing
\* runs between its statements
Reconciled(c) == _cm_handle_response(c.reg0, c.chunk, c.response).registry

TerminalAt(r, idx) ==
    r.results[idx].error \in {"NotRegistered", "InvalidRegistration"}

OtherErrorAt(r, idx) ==
    r.results[idx].error \notin {"None", "NotRegistered", "InvalidRegistration"}

CountsNonZero(r) == r.failure # 0 \/ r.canonical_ids # 0

\* the results array is there and has no more entries than ids were sent
NoOverrun(c) == c.response.has_results /\ Len(c.response.results) <= Len(c.chunk)

\* number of chunks of a list of length len cut into chunks of n
NumChunks(len, n) == (len + n - 1) \div n

\* the requests posted are the chunks of the list, all of them, in order
AllChunksSent(c) ==
    LET n == SETTINGS.GCM_MAX_RECIPIENTS
        l == c.registration_ids
    IN  /\ Len(c.sent) = NumChunks(Len(l), n)
        /\ \A j \in 1..Len(c.sent) :
              c.sent[j].registration_ids = Slice(l, (j - 1) * n, j * n)

\* C1: a bulk send of more than GCM_MAX_RECIPIENTS ids posts every chunk, in
\* chunk order, even when the reconciliation of an earlier chunk ends in
\* GCMError: the rejection is reported only once every chunk has been posted.
C1_RejectionSendsEveryChunk ==
    \A p \in Procs :
        LET c == call[p]
        IN  (c.pc = "done" /\ c.multi /\ InSeq("GCMError", c.raised))
                => AllChunksSent(c)

\* C2, as claimed: whenever an entry of the chunk's results carries an error
\* code other than NotRegistered / InvalidRegistration, the reconciliation
\* ends in GCMError, with every deactivation and rename of the chunk applied.
C2_AnyOtherErrorRejects ==
    \A p \in Procs :
        LET c == call[p]
        IN  (ChunkEnded(c)
                /\ \E idx \in 1..Len(c.response.results) : OtherErrorAt(c.response, idx))
                => (c.exc = "GCMError" /\ registry = Reconciled(c))

\* C2, amended: when the response has a non-zero failure or canonical_ids
\* count and its results array has no more entries than ids were sent, an
\* entry with an error code other than NotRegistered / InvalidRegistration
\* makes the reconciliation end in GCMError, and when it is raised every
\* deactivation and rename of the chunk has been applied to the registry.
C2_CountedOtherErrorRejects ==
    \A p \in Procs :
        LET c == call[p]
        IN  (ChunkEnded(c) /\ CountsNonZero(c.response) /\ NoOverrun(c)
                /\ \E idx \in 1..Len(c.response.results) : OtherErrorAt(c.response, idx))
                => /\ c.exc = "GCMError"
                   /\ c.pc = "done"
                   /\ registry = Reconciled(c)
                   /\ \A idx \in 1..Len(c.response.results) :
                        TerminalAt(c.response, idx) =>
                            \A d \in Dev :
                                c.reg0[d].registration_id = c.chunk[idx]
                                    => ~registry[d].active

\* GCMError was raised after a deactivation and a rename had changed the registry
C2_Witness ==
    \E p \in Procs :
        LET c == call[p]
        IN  /\ ChunkEnded(c) /\ c.exc = "GCMError"
            /\ c.ids_to_remove # <<>> /\ c.old_new_ids # <<>>
            /\ \E d \in Dev : c.reg0[d].active /\ ~registry[d].active
            /\ \E d \in Dev : c.reg0[d].registration_id # registry[d].registration_id

\* the rows that held the id sent at index idx are inactive
DeactivatedAt(c, idx) ==
    \A d \in Dev :
        c.reg0[d].registration_id = c.chunk[idx] => ~registry[d].active

AllErrorsTerminal(r) ==
    \A idx \in 1..Len(r.results) : ~OtherErrorAt(r, idx)

\* C3, as claimed: every row that held the id of an index whose result is
\* NotRegistered / InvalidRegistration is inactive when the reconciliation
\* ends, and a response whose error codes are all of these two kinds raises
\* nothing.
C3_TerminalDeactivates ==
    \A p \in Procs :
        LET c == call[p]
        IN  ChunkEnded(c) =>
                /\ \A idx \in 1..Len(c.chunk) :
                      (idx <= Len(c.response.results) /\ TerminalAt(c.response, idx))
                          => DeactivatedAt(c, idx)
                /\ AllErrorsTerminal(c.response) => c.exc = "None"

\* C3, amended: for a response whose results array is there and has no more
\* entries than ids were sent: when its failure or canonical_ids count is
\* non-zero, every row that held the id of an index whose result is
\* NotRegistered / InvalidRegistration is inactive when the reconciliation
\* ends; and when all its error codes are of these two kinds, the
\* reconciliation raises nothing.
C3_CountedTerminalDeactivates ==
    \A p \in Procs :
        LET c == call[p]
        IN  (ChunkEnded(c) /\ NoOverrun(c)) =>
                /\ CountsNonZero(c.response) =>
                      \A idx \in 1..Len(c.response.results) :
                          TerminalAt(c.response, idx) => DeactivatedAt(c, idx)
                /\ AllErrorsTerminal(c.response) => c.exc = "None"

\* an InvalidRegistration result has deactivated an active row and the send
\* has returned
C3_Witness ==
    \E p \in Procs :
        LET c == call[p]
        IN  /\ ChunkEnded(c) /\ NoOverrun(c) /\ c.pc = "done" /\ c.exc = "None"
            /\ \E idx \in 1..Len(c.response.results) :
                  /\ c.response.results[idx].error = "InvalidRegistration"
                  /\ \E d \in Dev :
                        /\ c.reg0[d].registration_id = c.chunk[idx]
                        /\ c.reg0[d].active /\ ~registry[d].active

\* C4: the canonical-id resolution of a pair (old, new), old = new included:
\* with an active row of id new, the rows of id old are deactivated and the
\* rows of id new are left as they are; otherwise the rows of id old get the
\* id new and keep their active flag. No other row changes.
C4_CanonicalResolution ==
    [][\A p \in Procs :
        LET c == call[p]
            old_id == c.old_new_ids[c.k][1]
            new_id == c.old_new_ids[c.k][2]
        IN  (c.pc = "canonical_update" /\ call'[p].pc # "canonical_update") =>
                IF \E d \in Dev : registry[d].registration_id = new_id
                                    /\ registry[d].active
                THEN \A d \in Dev :
                        /\ registry[d].registration_id = old_id =>
                              registry'[d] = [registry[d] EXCEPT !.active = FALSE]
                        /\ registry[d].registration_id = new_id =>
                              registry'[d] = registry[d]
                        /\ registry[d].registration_id \notin {old_id, new_id} =>
                              registry'[d] = registry[d]
                ELSE \A d \in Dev :
                        registry'[d] =
                            IF registry[d].registration_id = old_id
                            THEN [registry[d] EXCEPT !.registration_id = new_id]
                            ELSE registry[d]
      ]_vars

\* C5: from a registry with at most one active row per id, sends that follow
\* one another leave at most one active row per id.
C5_OneActivePerToken == UniqueActive(registry)

\* two pairs of one chunk named the same new id: one old row was renamed to
\* it and is active, the other was deactivated
C5_Witness ==
    \E p \in Procs :
        LET c == call[p]
        IN  /\ ChunkEnded(c) /\ Len(c.old_new_ids) = 2
            /\ c.old_new_ids[1][2] = c.old_new_ids[2][2]
            /\ c.old_new_ids[1][1] # c.old_new_ids[2][1]
            /\ \A d \in Dev : c.reg0[d].active
            /\ \E d1, d2 \in Dev :
                  /\ c.reg0[d1].registration_id = c.old_new_ids[1][1]
                  /\ c.reg0[d2].registration_id = c.old_new_ids[2][1]
                  /\ registry[d1] = [registration_id |-> c.old_new_ids[1][2],
                                     active |-> TRUE]
                  /\ ~registry[d2].active

\* no canonical id of the response is one of the ids that were sent
NoSentIdAsCanonical(c) ==
    \A idx \in 1..Len(c.response.results), j \in 1..Len(c.chunk) :
        c.response.results[idx].registration_id # c.chunk[j]

\* the registry a second reconciliation of the same ids and response leaves
ReconciledAgain(c) == _cm_handle_response(registry, c.chunk, c.response).registry

\* C6, as claimed: reconciling the same ids and the same response a second
\* time leaves the registry as the first reconciliation left it.
C6_Idempotent ==
    \A p \in Procs :
        LET c == call[p]
        IN  ChunkEnded(c) => ReconciledAgain(c) = registry

\* C6, amended: when no canonical id of the response is one of the ids that
\* were sent, reconciling the same ids and the same response a second time
\* leaves the registry as the first reconciliation left it.
C6_IdempotentOnFreshCanonicalIds ==
    \A p \in Procs :
        LET c == call[p]
        IN  (ChunkEnded(c) /\ NoSentIdAsCanonical(c)) => ReconciledAgain(c) = registry

\* a first reconciliation deactivated one row as a duplicate of an active
\* canonical id and renamed another, none of the canonical ids having been sent
C6_Witness ==
    \E p \in Procs :
        LET c == call[p]
        IN  /\ ChunkEnded(c) /\ NoSentIdAsCanonical(c)
            /\ Len(c.old_new_ids) = 2
            /\ \E d \in Dev : c.reg0[d].active /\ ~registry[d].active
            /\ \E d \in Dev :
                  c.reg0[d].registration_id # registry[d].registration_id

\* the results array is missing, or is not as long as the list of ids sent
Misaligned(c) ==
    ~c.response.has_results \/ Len(c.response.results) # Len(c.chunk)

\* C7: a response whose results array is missing or is not as long as the
\* list of ids sent makes the reconciliation fail with a protocol error of
\* its own, and no row of the registry is deactivated or renamed.
C7_MisalignedFailsFast ==
    \A p \in Procs :
        LET c == call[p]
        IN  (ChunkEnded(c) /\ Misaligned(c))
                => (c.exc = "ProtocolError" /\ registry = c.reg0)

\* C8: two callers reconciling at the same time never leave two active rows
\* with the same id, whatever the interleaving of their statements: each
\* deactivate-then-rename sequence takes effect as one unit.
C8_ConcurrentSendsKeepOneActive ==
    (\A p \in Procs : call[p].pc \in {"idle", "done"})
        => \A d1, d2 \in Dev :
              (registry[d1].active /\ registry[d2].active /\ d1 # d2)
                  => registry[d1].registration_id # registry[d2].registration_id

\* C9: a chunk of a bulk send of more than GCM_MAX_RECIPIENTS ids that fails
\* makes gcm_send_bulk_message raise, and the registry then is the one the
\* chunks before it left, changed only by what the failing chunk itself
\* applied before it raised: nothing is rolled back.
C9_ChunkFailureSurfaces ==
    \A p \in Procs :
        LET c == call[p]
        IN  (c.pc = "done" /\ c.multi /\ c.raised # <<>>)
                => /\ c.exc # "None"
                   /\ c.out.type # "list"
                   /\ registry = IF c.exc = "GCMError" THEN Reconciled(c) ELSE c.reg0

\* the second chunk failed after the first chunk had changed the registry,
\* and the change is still there
C9_Witness ==
    \E p \in Procs :
        LET c == call[p]
        IN  /\ c.pc = "done" /\ c.multi /\ c.exc # "None"
            /\ Len(c.ret) >= 1
            /\ c.reg0 # c.reg_call
            /\ registry = c.reg0

RECURSIVE Concat(_)
Concat(ss) == IF ss = <<>> THEN <<>> ELSE Head(ss) \o Concat(Tail(ss))

C11_EnvelopeWithinMaximum ==
    \A p \in Procs : \A j \in 1..Len(call[p].sent) :
        Len(call[p].sent[j].registration_ids) <= SETTINGS.GCM_MAX_RECIPIENTS

\* a bulk send of more ids than the maximum has posted all its chunks, each
\* of them full
C11_Witness ==
    \E p \in Procs :
        LET c == call[p]
        IN  /\ c.pc = "done" /\ c.multi /\ c.exc = "None"
            /\ Len(c.sent) >= 2
            /\ \A j \in 1..Len(c.sent) :
                Len(c.sent[j].registration_ids) = SETTINGS.GCM_MAX_RECIPIENTS

\* C12: without GCM_API_KEY no request reaches the transport and the registry
\* stays as the entry point found it; a send of at least one id ends in
\* ImproperlyConfigured, a bulk send of several chunks at its first chunk
C12_NoKeyNoRequest ==
    ~SETTINGS.GCM_API_KEY =>
        \A p \in Procs :
            LET c == call[p]
            IN  /\ c.sent = <<>>
                /\ c.pc # "idle" => registry = c.reg_call
                /\ (c.pc = "done" /\ c.registration_ids # <<>>) =>
                        /\ c.exc = "ImproperlyConfigured"
                        /\ c.raised = <<"ImproperlyConfigured">>
                        /\ c.ret = <<>>

\* a bulk send of several chunks has failed for want of a key
C12_Witness ==
    \E p \in Procs :
        /\ ~SETTINGS.GCM_API_KEY
        /\ call[p].pc = "done" /\ call[p].multi
        /\ call[p].exc = "ImproperlyConfigured"

\* C13: gcm_send_bulk_message of an empty list hands back None, posts no
\* request, raises nothing (the key is not even looked at) and leaves the
\* registry alone
C13_EmptyBulkIsNoop ==
    \A p \in Procs :
        LET c == call[p]
        IN  (c.pc = "done" /\ c.entry = "gcm_send_bulk_message"
                /\ c.registration_ids = <<>>) =>
                /\ c.out = OutOf(NoneResult)
                /\ c.exc = "None" /\ c.raised = <<>>
                /\ c.sent = <<>>
                /\ registry = c.reg_call

\* an empty bulk send has returned although no key is configured
C13_Witness ==
    \E p \in Procs :
        /\ ~SETTINGS.GCM_API_KEY
        /\ call[p].pc = "done" /\ call[p].entry = "gcm_send_bulk_message"
        /\ call[p].registration_ids = <<>>
        /\ call[p].out.type = "None" /\ call[p].exc = "None"

\* what gcm_send_bulk_message([token]) hands back where the call c of
\* gcm_send_message(token) has got the same answer from the gateway
BulkOfOne(c) ==
    Return([c EXCEPT !.entry = "gcm_send_bulk_message",
                     !.multi = IsMulti("gcm_send_bulk_message", c.registration_ids)],
           ResponseResult(c.response))

\* the request, the registry and the exception of a finished
\* gcm_send_message(token) are those of gcm_send_bulk_message([token])
SameEffectsAsBulkOfOne(c) ==
    /\ ~IsMulti("gcm_send_bulk_message", c.registration_ids)
    /\ c.handled =>
        /\ c.sent = <<Envelope(c.registration_ids)>>
        /\ registry = _cm_handle_response(c.reg_call, c.registration_ids, c.response).registry
        /\ c.exc = _cm_handle_response(c.reg_call, c.registration_ids, c.response).exc
    /\ ~c.handled =>
        /\ registry = c.reg_call
        /\ c.exc \in {"ImproperlyConfigured", "HTTPError"}
        /\ c.sent = IF c.exc = "HTTPError"
                    THEN <<Envelope(c.registration_ids)>> ELSE <<>>

\* C14: gcm_send_message(token) is gcm_send_bulk_message([token]): the same
\* request is posted, the registry is changed alike, the same exception is
\* raised and the same value is handed back
C14_SingleEqualsBulkOfOne ==
    \A p \in Procs :
        LET c == call[p]
        IN  (c.pc = "done" /\ c.entry = "gcm_send_message") =>
                /\ SameEffectsAsBulkOfOne(c)
                /\ (c.handled /\ c.exc = "None") => c.out = BulkOfOne(c).out

\* gcm_send_message(token) is gcm_send_bulk_message([token]) in all but the
\* value handed back
C14_SameEffects ==
    \A p \in Procs :
        (call[p].pc = "done" /\ call[p].entry = "gcm_send_message") =>
            SameEffectsAsBulkOfOne(call[p])

\* the keys of a serialised envelope
KeysOf(out) == {out[j][1] : j \in 1..Len(out)}

\* C15: a serialised envelope has registration_ids always, data exactly when
\* data is not None, collapse_key exactly when it is non-empty,
\* delay_while_idle exactly when it is true, time_to_live exactly when it is
\* non-zero, and no other key; two builds from the same arguments give the
\* same serialised envelope
C15_EnvelopeKeys ==
    /\ \A j \in 1..Len(build.built) :
        LET out == build.built[j]
        IN  /\ "registration_ids" \in KeysOf(out)
            /\ \E m \in 1..Len(out) :
                out[m] = <<"registration_ids", IdsValue(build.registration_ids)>>
            /\ "data" \in KeysOf(out) <=> build.data # "None"
            /\ "collapse_key" \in KeysOf(out)
                    <=> build.collapse_key \notin {"None", ""}
            /\ "delay_while_idle" \in KeysOf(out) <=> build.delay_while_idle
            /\ "time_to_live" \in KeysOf(out) <=> build.time_to_live # 0
            /\ KeysOf(out) \subseteq {"registration_ids", "data", "collapse_key",
                                      "delay_while_idle", "time_to_live"}
            /\ Cardinality(KeysOf(out)) = Len(out)
    /\ \A j1, j2 \in 1..Len(build.built) : build.built[j1] = build.built[j2]

\* an envelope of all five keys, its data the empty dict, has been built
\* twice, the dict giving its keys in two different orders
C15_Witness ==
    /\ Len(build.built) = 2 /\ build.reordered
    /\ build.data = "{}"
    /\ Len(build.built[1]) = 5

\* the indices of the results, in increasing order
Indices(r) == [j \in 1..Len(r.results) |-> j]

HasNewIdAt(r, idx) == r.results[idx].registration_id # 0

\* the ids of the chunk whose entry has a terminal error, by increasing index
ExpectedRemovals(c) ==
    LET at == SelectSeq(Indices(c.response),
                        LAMBDA idx : idx <= Len(c.chunk) /\ TerminalAt(c.response, idx))
    IN  [m \in 1..Len(at) |-> c.chunk[at[m]]]

\* the pairs (id sent, canonical id) of the entries that carry a canonical id,
\* by increasing index
ExpectedPairs(c) ==
    LET at == SelectSeq(Indices(c.response),
                        LAMBDA idx : idx <= Len(c.chunk) /\ HasNewIdAt(c.response, idx))
    IN  [m \in 1..Len(at) |->
            <<c.chunk[at[m]], c.response.results[at[m]].registration_id>>]

\* the registry once the batch of deactivations and then the first n pairs,
\* one after the other, have been applied to the registry the chunk found
RECURSIVE ResolvedUpTo(_, _)
ResolvedUpTo(c, n) ==
    IF n = 0
    THEN IF ExpectedRemovals(c) # <<>>
         THEN DeactivateIds(c.reg0, ExpectedRemovals(c)) ELSE c.reg0
    ELSE _cm_handle_canonical_id(ResolvedUpTo(c, n - 1),
                                 ExpectedPairs(c)[n][2], ExpectedPairs(c)[n][1])

\* C16: within the reconciliation of one chunk nothing is written before the
\* batch of deactivations, the batch is applied before any pair is resolved,
\* and the pairs are resolved one at a time by increasing index in results,
\* each one reading (exists) and writing the registry the one before left
C16_DeactivateThenRenameInOrder ==
    \A p \in Procs :
        LET c == call[p]
        IN  /\ c.pc = "deactivate" => registry = c.reg0
            /\ c.pc \in {"canonical", "canonical_update"} =>
                /\ c.k \in 1..Len(ExpectedPairs(c))
                /\ c.old_new_ids[c.k] = ExpectedPairs(c)[c.k]
                /\ registry = ResolvedUpTo(c, c.k - 1)
            /\ c.pc = "canonical_update" =>
                c.exists = ExistsActive(registry, ExpectedPairs(c)[c.k][2])
            /\ c.pc = "finish" =>
                registry = ResolvedUpTo(c, Len(ExpectedPairs(c)))

\* a chunk with a deactivation and two different pairs has been reconciled,
\* and resolving the pairs has changed the registry the batch left
C16_Witness ==
    \E p \in Procs :
        LET c == call[p]
        IN  /\ c.pc = "finish"
            /\ c.ids_to_remove # <<>>
            /\ Len(c.old_new_ids) = 2 /\ c.old_new_ids[1] # c.old_new_ids[2]
            /\ registry # DeactivateIds(c.reg0, c.ids_to_remove)
            /\ DeactivateIds(c.reg0, c.ids_to_remove) # c.reg0

\* every entry with a canonical id has given its pair, and the pairs have
\* been resolved on top of the deactivations the chunk has made
PairsResolved(c) ==
    /\ c.old_new_ids = ExpectedPairs(c)
    /\ registry = ApplyCanonicalIds(
                    IF c.ids_to_remove # <<>>
                    THEN DeactivateIds(c.reg0, c.ids_to_remove) ELSE c.reg0,
                    ExpectedPairs(c), 1)

\* C17: a result entry with a canonical id always gives the pair (id sent,
\* canonical id), with or without an error code in the same entry, and the
\* pair is resolved also when the id was marked for deactivation and when the
\* call ends in GCMError.
C17_CanonicalIdAlwaysPaired ==
    \A p \in Procs : ChunkEnded(call[p]) => PairsResolved(call[p])

\* C17, amended: when the response has a non-zero failure or canonical_ids
\* count and its results array has no more entries than ids were sent, every
\* entry with a canonical id gives the pair (id sent, canonical id), with or
\* without an error code in the same entry, and the pair is resolved also when
\* the id was marked for deactivation and when the call ends in GCMError.
C17_CountedCanonicalIdPaired ==
    \A p \in Procs :
        (ChunkEnded(call[p]) /\ CountsNonZero(call[p].response) /\ NoOverrun(call[p]))
            => PairsResolved(call[p])

\* a call has ended in GCMError after the pairs of an entry with a terminal
\* error and of an entry with another error were both resolved
C17_Witness ==
    \E p \in Procs :
        LET c == call[p]
        IN  /\ ChunkEnded(c) /\ c.exc = "GCMError"
            /\ \E i1, i2 \in 1..Len(c.response.results) :
                /\ TerminalAt(c.response, i1) /\ HasNewIdAt(c.response, i1)
                /\ OtherErrorAt(c.response, i2) /\ HasNewIdAt(c.response, i2)
            /\ Len(c.old_new_ids) = 2
            /\ \E d \in Dev : c.reg0[d].registration_id # registry[d].registration_id

\* the entry at idx has an error code that is not terminal and no canonical id
OnlyOtherErrorAt(r, idx) == OtherErrorAt(r, idx) /\ ~HasNewIdAt(r, idx)

\* no entry of the response asks for a change of the id: it is not the id of
\* an entry with a terminal error, nor the old or the new id of a pair
Untouched(c, id) ==
    /\ ~InSeq(id, ExpectedRemovals(c))
    /\ \A m \in 1..Len(ExpectedPairs(c)) :
        ExpectedPairs(c)[m][1] # id /\ ExpectedPairs(c)[m][2] # id

\* the rows of the id are as the chunk found them
RowsKept(c, id) ==
    \A d \in Dev : c.reg0[d].registration_id = id => registry[d] = c.reg0[d]

\* the one result of a one-id chunk is an entry with a non-terminal error only
SingleRejected(c) ==
    /\ Len(c.chunk) = 1
    /\ c.response.has_results /\ Len(c.response.results) = 1
    /\ OnlyOtherErrorAt(c.response, 1)

\* the entries after a non-terminal error have been processed like the ones
\* before it: all deactivations and all pairs of the chunk were collected and
\* applied, and then GCMError was raised
AllIndicesProcessed(c) ==
    /\ c.ids_to_remove = ExpectedRemovals(c)
    /\ c.old_new_ids = ExpectedPairs(c)
    /\ registry = ResolvedUpTo(c, Len(ExpectedPairs(c)))
    /\ c.exc = "GCMError"

\* C18: an entry with a non-terminal error only and no canonical id changes no
\* row of its id; for a one-id chunk [A] with such a result the call raises
\* GCMError and the rows of A keep id and active flag; the entries after such
\* an entry are still processed.
C18_OtherErrorKeepsRow ==
    \A p \in Procs :
        LET c == call[p]
        IN  ChunkEnded(c) =>
                /\ \A idx \in 1..Len(c.response.results) :
                    (idx <= Len(c.chunk) /\ OnlyOtherErrorAt(c.response, idx)
                        /\ Untouched(c, c.chunk[idx])) => RowsKept(c, c.chunk[idx])
                /\ SingleRejected(c) => (c.exc = "GCMError" /\ registry = c.reg0)
                /\ (\E idx \in 1..Len(c.response.results) :
                        OnlyOtherErrorAt(c.response, idx)) => AllIndicesProcessed(c)

\* C18, amended: an entry with a non-terminal error only and no canonical id
\* changes no row of its id; when the response has a non-zero failure or
\* canonical_ids count, a one-id chunk [A] with such a result makes the call
\* raise GCMError and the rows of A keep id and active flag, and, the results
\* array having no more entries than ids were sent, the entries after such an
\* entry are still processed.
C18_CountedOtherErrorKeepsRow ==
    \A p \in Procs :
        LET c == call[p]
        IN  ChunkEnded(c) =>
                /\ \A idx \in 1..Len(c.response.results) :
                    (idx <= Len(c.chunk) /\ OnlyOtherErrorAt(c.response, idx)
                        /\ Untouched(c, c.chunk[idx])) => RowsKept(c, c.chunk[idx])
                /\ (SingleRejected(c) /\ CountsNonZero(c.response)) =>
                        (c.exc = "GCMError" /\ registry = c.reg0)
                /\ (CountsNonZero(c.response) /\ NoOverrun(c)
                        /\ \E idx \in 1..Len(c.response.results) :
                            OnlyOtherErrorAt(c.response, idx)) => AllIndicesProcessed(c)

\* the first entry has a non-terminal error only, the second a terminal one:
\* the active row of the first id is kept, the row of the second id is
\* deactivated, and GCMError is raised
C18_Witness ==
    \E p \in Procs :
        LET c == call[p]
        IN  /\ ChunkEnded(c) /\ c.exc = "GCMError"
            /\ Len(c.chunk) = 2 /\ c.chunk[1] # c.chunk[2]
            /\ c.response.has_results /\ Len(c.response.results) = 2
            /\ OnlyOtherErrorAt(c.response, 1) /\ TerminalAt(c.response, 2)
            /\ \E d \in Dev :
                /\ c.reg0[d].registration_id = c.chunk[1]
                /\ c.reg0[d].active /\ registry[d] = c.reg0[d]
            /\ \E d \in Dev :
                /\ c.reg0[d].registration_id = c.chunk[2]
                /\ c.reg0[d].active /\ ~registry[d].active

\* C19: when the response has neither a non-zero failure count nor a non-zero
\* canonical_ids count, _cm_handle_response does not go through the results,
\* whatever they carry (or if there are none): it changes no row, raises
\* nothing and returns the response
C19_ZeroCountsSkipResults ==
    \A p \in Procs :
        LET c == call[p]
        IN  (ChunkEnded(c) /\ ~CountsNonZero(c.response)) =>
                /\ registry = c.reg0
                /\ c.exc = "None" /\ c.raised = <<>>
                /\ c.ids_to_remove = <<>> /\ c.old_new_ids = <<>> /\ ~c.throw_error
                /\ (c.entry = "gcm_send_bulk_message" /\ ~c.multi) =>
                        c.out = OutOf(ResponseResult(c.response))
                /\ c.multi => (c.ret # <<>> /\ c.ret[Len(c.ret)] = "response")

\* a response with both counts zero was returned although its entries carry
\* a terminal error and a canonical id for an active row and another error
C19_Witness ==
    \E p \in Procs :
        LET c == call[p]
        IN  /\ ChunkEnded(c) /\ ~CountsNonZero(c.response)
            /\ c.out.type = "response"
            /\ Len(c.response.results) = 2 /\ Len(c.chunk) = 2
            /\ TerminalAt(c.response, 1) /\ HasNewIdAt(c.response, 1)
            /\ OtherErrorAt(c.response, 2)
            /\ \E d \in Dev :
                c.reg0[d].registration_id = c.chunk[1] /\ registry[d].active

\* C20: no step of a send or of a reconciliation adds or removes a row, makes
\* an inactive row active, or changes a row in any way other than active to
\* inactive or its registration id to the canonical id of the pair at hand
C20_OnlyDeactivateOrRename ==
    [][/\ DOMAIN registry' = DOMAIN registry
       /\ \A d \in Dev :
            /\ ~registry[d].active => ~registry'[d].active
            /\ registry'[d] # registry[d] =>
                \/ /\ registry[d].active /\ ~registry'[d].active
                   /\ registry'[d].registration_id = registry[d].registration_id
                \/ /\ registry'[d].active = registry[d].active
                   /\ \E p \in Procs :
                        /\ call[p].pc = "canonical_update"
                        /\ registry'[d].registration_id
                                = call[p].old_new_ids[call[p].k][2]]_vars

\* a reconciliation has deactivated a row and has renamed an inactive row,
\* which is still inactive
C20_Witness ==
    \E p \in Procs :
        LET c == call[p]
        IN  /\ ChunkEnded(c)
            /\ \E d \in Dev : c.reg0[d].active /\ ~registry[d].active
            /\ \E d \in Dev :
                /\ ~c.reg0[d].active /\ ~registry[d].active
                /\ c.reg0[d].registration_id # registry[d].registration_id

====
